---- MODULE Spec2Model ----
(***************************************************************************)
(* Model of app.py, the Streamlit income-prediction page.                  *)
(*                                                                         *)
(* The script is rerun from its first line on every user interaction.     *)
(* One rerun is the sequence                                               *)
(*   load_resources (cached)  ->  widgets  ->  build_input  ->             *)
(*   [if the button was pressed] predict_proba -> result -> SHAP -> tafsir *)
(* A number in [0,1] is modelled as k / ProbScale with k \in 0..ProbScale. *)
(* A DataFrame is a function  row label -> (column name -> value).         *)
(***************************************************************************)
EXTENDS Integers, Sequences, FiniteSets, TLC

VARIABLES
    artifact,     \* feature names of the booster pickled in model_income_xgboost.pkl
    cache,        \* st.cache_resource entry of load_resources: 0 = empty, else the object id
    loads,        \* number of times the body of load_resources has run
    model,        \* the script global `model` of the current run (0 = not bound yet)
    widgets,      \* the widget values held by the session
    changes,      \* number of widget edits made so far in the session
    button,       \* TRUE iff the current run was triggered by the button
    pc,           \* position of the current run in the script
    X_input,      \* the script global X_input (<<>> = not bound yet)
    proba,        \* model.predict_proba(X_input)[0][1] as returned (-1 = not called)
    prob,         \* the script variable prob (-1 = not bound yet)
    pred,         \* the script variable pred (-1 = not bound yet)
    display,      \* elements rendered by the button block in the current run
    calls,        \* the calls made by the current run, in order
    proba_arg,    \* the frame handed to predict_proba in the current run
    shap_arg,     \* the frame handed to explainer.shap_values in the current run
    raised,       \* message of the exception raised in the current run ("" = none)
    escaped       \* TRUE iff that exception left the script uncaught

vars == <<artifact, cache, loads, model, widgets, changes, button, pc, X_input,
          proba, prob, pred, display, calls, proba_arg, shap_arg, raised, escaped>>

----------------------------------------------------------------------------
(* Bounds of the model *)

\* widget edits explored in one session
MaxChanges == 2
\* resolution of the probabilities: k / ProbScale
ProbScale == 4

----------------------------------------------------------------------------
(* 3. MAPPINGS *)

EDUCATION_MAP ==
    "Tidak Sekolah" :> 1 @@ "SD" :> 3 @@ "SMP" :> 5 @@ "SMA" :> 9 @@
    "Kuliah/Diploma" :> 10 @@ "Sarjana (S1)" :> 13 @@ "Magister (S2)" :> 14 @@
    "Pendidikan Profesi" :> 15 @@ "Doktor (S3)" :> 16

OCCUPATION_MAP ==
    "Manajerial / Eksekutif" :> "Exec-managerial" @@
    "Profesional / Spesialis" :> "Prof-specialty" @@
    "Teknisi / IT Support" :> "Tech-support" @@ "Penjualan" :> "Sales" @@
    "Layanan Umum" :> "Other-service" @@ "Pekerja Kasar" :> "Handlers-cleaners" @@
    "Lainnya" :> "Unknown"

MARITAL_MAP ==
    "Belum Menikah" :> "Never-married" @@ "Menikah" :> "Married-civ-spouse" @@
    "Cerai/Pisah" :> "Divorced"

RELATIONSHIP_MAP ==
    "Suami" :> "Husband" @@ "Istri" :> "Wife" @@ "Anak" :> "Own-child" @@
    "Lainnya" :> "Unmarried"

----------------------------------------------------------------------------
(* 4. INPUT PROFIL: the widgets, their options and defaults *)

DefaultAge == 35
DefaultHours == 40
DefaultCapitalGain == 0
DefaultCapitalLoss == 0

\* values of the numeric widgets that are explored (all inside the widget ranges)
AgeValues == {17, DefaultAge, 90}
HoursValues == {1, DefaultHours, 100}
GainValues == {DefaultCapitalGain, 5000, 100000}
LossValues == {DefaultCapitalLoss, 100000}

Options ==
    [age |-> AgeValues,
     education_label |-> DOMAIN EDUCATION_MAP,
     gender |-> {"Male", "Female"},
     occupation_label |-> DOMAIN OCCUPATION_MAP,
     marital_label |-> DOMAIN MARITAL_MAP,
     relationship_label |-> DOMAIN RELATIONSHIP_MAP,
     hours |-> HoursValues,
     capital_gain |-> GainValues,
     capital_loss |-> LossValues]

Defaults ==
    [age |-> DefaultAge,
     education_label |-> "Sarjana (S1)",
     gender |-> "Male",
     occupation_label |-> "Manajerial / Eksekutif",
     marital_label |-> "Belum Menikah",
     relationship_label |-> "Suami",
     hours |-> DefaultHours,
     capital_gain |-> DefaultCapitalGain,
     capital_loss |-> DefaultCapitalLoss]

----------------------------------------------------------------------------
(* Feature schemas: the column names a pickled booster may carry *)

NumericCols == {"Age", "EducationNum", "Hours per Week", "Capital Gain", "capital loss"}

\* the one-hot attributes and the category values that occur in column names
Prefixes == {"Workclass", "Occupation", "Marital Status", "Relationship", "Gender"}

Vocabulary ==
    {OCCUPATION_MAP[l] : l \in DOMAIN OCCUPATION_MAP}
    \cup {MARITAL_MAP[l] : l \in DOMAIN MARITAL_MAP}
    \cup {RELATIONSHIP_MAP[l] : l \in DOMAIN RELATIONSHIP_MAP}
    \cup {"Male", "Female", "Private"}

OneHot(prefix, val) == prefix \o "_" \o val

\* the column names that begin with each prefix
ColsOf == [p \in Prefixes |-> {OneHot(p, v) : v \in Vocabulary}]

HasPrefix(col, prefix) == col \in ColsOf[prefix]

\* a schema as training on the labels of this page would give it
TrainSchema ==
    NumericCols
    \cup {OneHot("Occupation", OCCUPATION_MAP[l]) : l \in DOMAIN OCCUPATION_MAP \ {"Lainnya"}}
    \cup {OneHot("Marital Status", MARITAL_MAP[l]) : l \in DOMAIN MARITAL_MAP}
    \cup {OneHot("Relationship", RELATIONSHIP_MAP[l]) : l \in DOMAIN RELATIONSHIP_MAP}
    \cup {"Gender_Male"}

\* a schema that also carries the columns of the sibling variants
WideSchema ==
    TrainSchema \cup {"Gender_Female", "Occupation_Unknown", "Workclass_Private",
                      "Has_Capital_Gain", "Has_Capital_Loss"}

Schemas ==
    {TrainSchema, WideSchema,
     TrainSchema \ {"Age"},
     TrainSchema \ {"EducationNum", "Hours per Week"},
     TrainSchema \ {"Capital Gain", "capital loss"},
     TrainSchema \ {"Gender_Male"},
     WideSchema \ {"Gender_Male"},
     NumericCols,
     WideSchema \ NumericCols,
     TrainSchema \ {"Marital Status_Never-married", "Relationship_Husband",
                    "Occupation_Exec-managerial"}}

----------------------------------------------------------------------------
(* pandas *)

\* pd.DataFrame(0, index=[0], columns=feature_names)
ZeroFrame(names) == [i \in {0} |-> [c \in names |-> 0]]

Columns(X) == DOMAIN X[0]

\* X[col] = v : overwrites the column, and appends it when X has no such column
SetCol(X, col, v) == [i \in DOMAIN X |-> (col :> v) @@ X[i]]

----------------------------------------------------------------------------
(* 5. PREDICTION LOGIC: build_input *)

\* variant of Numerics: the two capital columns receive each other's value
Numerics_swapped(X, w) ==
    LET X1 == SetCol(X, "Age", w.age)
        X2 == SetCol(X1, "EducationNum", EDUCATION_MAP[w.education_label])
        X3 == SetCol(X2, "Hours per Week", w.hours)
        X4 == SetCol(X3, "Capital Gain", w.capital_loss)
    IN  SetCol(X4, "capital loss", w.capital_gain)

\* lines 81-85: the numeric columns, written without a membership test
Numerics(X, w) ==
    LET X1 == SetCol(X, "Age", w.age)
        X2 == SetCol(X1, "EducationNum", EDUCATION_MAP[w.education_label])
        X3 == SetCol(X2, "Hours per Week", w.hours)
        X4 == SetCol(X3, "Capital Gain", w.capital_gain)
    IN  SetCol(X4, "capital loss", w.capital_loss)

\* variant of act: the membership test matches on the prefix alone
act_prefix(X, prefix, val) ==
    [i \in DOMAIN X |->
        [c \in DOMAIN X[i] |-> IF HasPrefix(c, prefix) THEN 1 ELSE X[i][c]]]

\* lines 88-90: one-hot activation, guarded by the membership test
act(X, prefix, val) ==
    LET col == OneHot(prefix, val)
    IN  IF col \in Columns(X) THEN SetCol(X, col, 1) ELSE X

\* line 95: gender is written directly, only for "Male", without a membership test
GenderStep(X, w) == IF w.gender = "Male" THEN SetCol(X, "Gender_Male", 1) ELSE X

build_input(w, names) ==
    LET X0 == Numerics(ZeroFrame(names), w)
        X1 == act(X0, "Occupation", OCCUPATION_MAP[w.occupation_label])
        X2 == act(X1, "Marital Status", MARITAL_MAP[w.marital_label])
        X3 == act(X2, "Relationship", RELATIONSHIP_MAP[w.relationship_label])
    IN  GenderStep(X3, w)

----------------------------------------------------------------------------
(* the button block *)

\* variant of Threshold: the boundary 0.5 counts as class 1
ThresholdGE(k) == IF 2 * k >= ProbScale THEN 1 ELSE 0

\* line 102: pred = 1 if prob > 0.5 else 0
Threshold(k) == IF 2 * k > ProbScale THEN 1 ELSE 0

\* line 117: f"{prob*100:.2f}%", as hundredths of a percent (round half to even)
Fmt(k) ==
    LET q == (k * 10000) \div ProbScale
        r == (k * 10000) % ProbScale
    IN  IF 2 * r > ProbScale \/ (2 * r = ProbScale /\ q % 2 = 1) THEN q + 1 ELSE q

Element(kind, text, value) == [kind |-> kind, text |-> text, value |-> value]

\* variant of Cached: the decorator is missing, every run loads again
NeverCached(c) == FALSE

\* line 19: st.cache_resource returns the stored object when there is one
Cached(c) == c # 0

----------------------------------------------------------------------------
(* The session *)

\* a rerun executes the script from the top with fresh globals and an empty page
StartRun(b) ==
    /\ button' = b
    /\ pc' = "load"
    /\ model' = 0
    /\ X_input' = <<>>
    /\ proba' = -1
    /\ prob' = -1
    /\ pred' = -1
    /\ display' = <<>>
    /\ calls' = <<>>
    /\ proba_arg' = <<>>
    /\ shap_arg' = <<>>
    /\ raised' = ""
    /\ escaped' = FALSE

\* the script has no try/except: an exception raised at any line leaves the
\* script, which ends the run there
Raise(name) ==
    /\ raised' = name
    /\ escaped' = TRUE
    /\ pc' = "idle"

Init ==
    /\ artifact \in Schemas
    /\ cache = 0
    /\ loads = 0
    /\ widgets = Defaults
    /\ changes = 0
    /\ button = FALSE
    /\ pc = "load"
    /\ model = 0
    /\ X_input = <<>>
    /\ proba = -1
    /\ prob = -1
    /\ pred = -1
    /\ display = <<>>
    /\ calls = <<>>
    /\ proba_arg = <<>>
    /\ shap_arg = <<>>
    /\ raised = ""
    /\ escaped = FALSE

\* the user edits one widget: the script reruns, the button reads False
ChangeWidget ==
    /\ pc = "idle"
    /\ changes < MaxChanges
    /\ \E f \in DOMAIN Options : \E v \in Options[f] \ {widgets[f]} :
          widgets' = [widgets EXCEPT ![f] = v]
    /\ changes' = changes + 1
    /\ StartRun(FALSE)
    /\ UNCHANGED <<artifact, cache, loads>>

\* the user presses the button: the script reruns, the button reads True
PressButton ==
    /\ pc = "idle"
    /\ StartRun(TRUE)
    /\ UNCHANGED <<artifact, cache, loads, widgets, changes>>

\* lines 19-26: model, explainer = load_resources()
LoadResources ==
    /\ pc = "load"
    /\ IF Cached(cache)
          THEN /\ model' = cache
               /\ UNCHANGED <<cache, loads>>
          ELSE /\ loads' = loads + 1
               /\ cache' = loads + 1
               /\ model' = loads + 1
    /\ pc' = "build"
    /\ UNCHANGED <<artifact, widgets, changes, button, X_input, proba, prob, pred,
                   display, calls, proba_arg, shap_arg, raised, escaped>>

\* line 98: X_input = build_input()
BuildInput ==
    /\ pc = "build"
    /\ X_input' = build_input(widgets, artifact)
    /\ calls' = Append(calls, "encode")
    /\ pc' = "button"
    /\ UNCHANGED <<artifact, cache, loads, model, widgets, changes, button, proba,
                   prob, pred, display, proba_arg, shap_arg, raised, escaped>>

\* variant of ButtonCheck: the block is not guarded by the button
ButtonCheckAlways ==
    /\ pc = "button"
    /\ pc' = "predict"
    /\ UNCHANGED <<artifact, cache, loads, model, widgets, changes, button, X_input,
                   proba, prob, pred, display, calls, proba_arg, shap_arg, raised, escaped>>

\* line 100: if st.button(...)
ButtonCheck ==
    /\ pc = "button"
    /\ pc' = IF button THEN "predict" ELSE "idle"
    /\ UNCHANGED <<artifact, cache, loads, model, widgets, changes, button, X_input,
                   proba, prob, pred, display, calls, proba_arg, shap_arg, raised, escaped>>

\* lines 101-102: the classifier answers with some probability of class 1
Predict ==
    /\ pc = "predict"
    /\ \E k \in 0..ProbScale :
          /\ proba' = k
          /\ prob' = k
          /\ pred' = Threshold(k)
    /\ proba_arg' = X_input
    /\ calls' = Append(calls, "predict_proba")
    /\ pc' = "result"
    /\ UNCHANGED <<artifact, cache, loads, model, widgets, changes, button, X_input,
                   display, shap_arg, raised, escaped>>

\* line 101: predict_proba raises
PredictRaises ==
    /\ pc = "predict"
    /\ proba_arg' = X_input
    /\ calls' = Append(calls, "predict_proba")
    /\ Raise("predict_proba")
    /\ UNCHANGED <<artifact, cache, loads, model, widgets, changes, button, X_input,
                   proba, prob, pred, display, shap_arg>>

\* lines 107-117: the verdict and the confidence metric
Result ==
    /\ pc = "result"
    /\ prob' = IF pred = 1 THEN prob ELSE ProbScale - prob
    /\ display' = display \o
          << IF pred = 1
                THEN Element("success", "PENDAPATAN TINGGI (> $50K)", -1)
                ELSE Element("error", "PENDAPATAN RENDAH (<= $50K)", -1),
             Element("metric",
                     IF pred = 1 THEN "Confidence (Prob. Tinggi)"
                                 ELSE "Confidence (Prob. Rendah)",
                     Fmt(prob')) >>
    /\ calls' = Append(calls, "render")
    /\ pc' = "shap"
    /\ UNCHANGED <<artifact, cache, loads, model, widgets, changes, button, X_input,
                   proba, pred, proba_arg, shap_arg, raised, escaped>>

\* lines 119-131: the SHAP values of X_input and their bar chart
Shap ==
    /\ pc = "shap"
    /\ shap_arg' = X_input
    /\ calls' = Append(calls, "attribution")
    /\ display' = Append(display, Element("pyplot", "10 Faktor Utama Penentu Prediksi", -1))
    /\ pc' = "tafsir"
    /\ UNCHANGED <<artifact, cache, loads, model, widgets, changes, button, X_input,
                   proba, prob, pred, proba_arg, raised, escaped>>

\* line 121: explainer.shap_values raises
ShapRaises ==
    /\ pc = "shap"
    /\ shap_arg' = X_input
    /\ calls' = Append(calls, "attribution")
    /\ Raise("shap_values")
    /\ UNCHANGED <<artifact, cache, loads, model, widgets, changes, button, X_input,
                   proba, prob, pred, display, proba_arg>>

\* lines 134-153: the two columns of interpretation text
Tafsir ==
    /\ pc = "tafsir"
    /\ display' = display \o
          << Element("write", IF pred = 0 THEN "Mengapa: rendah" ELSE "Mengapa: tinggi", -1),
             IF pred = 0
                THEN Element("warning", "Rekomendasi: peningkatan spesialisasi", -1)
                ELSE Element("info", "Rekomendasi: pertahankan posisi", -1) >>
    /\ pc' = "idle"
    /\ UNCHANGED <<artifact, cache, loads, model, widgets, changes, button, X_input,
                   proba, prob, pred, calls, proba_arg, shap_arg, raised, escaped>>

Next ==
    \/ ChangeWidget
    \/ PressButton
    \/ LoadResources
    \/ BuildInput
    \/ ButtonCheck
    \/ Predict
    \/ PredictRaises
    \/ Result
    \/ Shap
    \/ ShapRaises
    \/ Tafsir

Spec == Init /\ [][Next]_vars

----------------------------------------------------------------------------
(* Properties *)

\* the one-hot attributes this page collects, and the value selected for each
Attributes == {"Occupation", "Marital Status", "Relationship", "Gender"}

Selected(w, prefix) ==
    CASE prefix = "Occupation" -> OCCUPATION_MAP[w.occupation_label]
      [] prefix = "Marital Status" -> MARITAL_MAP[w.marital_label]
      [] prefix = "Relationship" -> RELATIONSHIP_MAP[w.relationship_label]
      [] prefix = "Gender" -> w.gender

\* build_input has returned in the current run
Built == X_input # <<>>

Row == X_input[0]

\* the columns of an attribute that are 1 in a row
Ones(row, prefix) == {c \in DOMAIN row : HasPrefix(c, prefix) /\ row[c] = 1}

\* the raw widget value behind a numeric column
Raw(w, col) ==
    CASE col = "Age" -> w.age
      [] col = "EducationNum" -> EDUCATION_MAP[w.education_label]
      [] col = "Hours per Week" -> w.hours
      [] col = "Capital Gain" -> w.capital_gain
      [] col = "capital loss" -> w.capital_loss

\* C1: every numeric column of the schema holds the raw widget value, and
\* EducationNum holds the table entry of the selected label, a value in 1..16.
C1_NumericIdentity ==
    Built =>
        /\ \A c \in NumericCols \cap artifact : c \in DOMAIN Row /\ Row[c] = Raw(widgets, c)
        /\ "EducationNum" \in DOMAIN Row
        /\ Row["EducationNum"] = EDUCATION_MAP[widgets.education_label]
        /\ Row["EducationNum"] \in 1..16

C1_Witness ==
    /\ Built
    /\ NumericCols \subseteq artifact
    /\ widgets.capital_gain = 5000
    /\ widgets.education_label = "Doktor (S3)"
    /\ Row["Capital Gain"] = 5000
    /\ Row["EducationNum"] = 16

\* C2: for each categorical attribute exactly one of its columns is 1 when the
\* combined name of the selected value is a schema column, and none is 1 when
\* that name is absent from the schema.
C2_ExactlyOneHot ==
    Built =>
        \A a \in Attributes :
            IF OneHot(a, Selected(widgets, a)) \in artifact
               THEN Cardinality(Ones(Row, a)) = 1
               ELSE Ones(Row, a) = {}

\* the written columns of build_input
WrittenCols(w) ==
    NumericCols
    \cup {OneHot(a, Selected(w, a)) : a \in Attributes \ {"Gender"}}
    \cup (IF w.gender = "Male" THEN {"Gender_Male"} ELSE {})

\* C3: the encoded frame has exactly one row and exactly the columns of the
\* schema, and every schema column that is not written is 0.
C3_SchemaColumnsOnly ==
    Built =>
        /\ Cardinality(DOMAIN X_input) = 1
        /\ Columns(X_input) = artifact
        /\ \A c \in artifact \ WrittenCols(widgets) : Row[c] = 0

\* the result block has been rendered in the current run
Rendered == Len(calls) >= 3

\* C4: the predicted class is 1 exactly when the returned probability exceeds
\* 0.5; the confidence is the probability for class 1 and its complement for
\* class 0, lies in [0,1], and is what the metric shows.
C4_Confidence ==
    /\ proba # -1 => /\ proba \in 0..ProbScale
                     /\ pred \in {0, 1}
                     /\ (pred = 1 <=> 2 * proba > ProbScale)
    /\ Rendered =>
          /\ prob = (IF pred = 1 THEN proba ELSE ProbScale - proba)
          /\ prob \in 0..ProbScale
          /\ display[2].kind = "metric"
          /\ display[2].value = Fmt(prob)
          /\ display[2].value \in 0..10000
          /\ display[2].text = (IF pred = 1 THEN "Confidence (Prob. Tinggi)"
                                            ELSE "Confidence (Prob. Rendah)")

C4_Witness ==
    /\ Rendered
    /\ 2 * proba = ProbScale
    /\ pred = 0
    /\ prob = proba
    /\ display[2].value = 5000

\* C5: when the schema has the indicator columns, Has_Capital_Gain is 1 iff
\* capital_gain > 0 and Has_Capital_Loss is 1 iff capital_loss > 0.
C5_Indicators ==
    Built =>
        /\ "Has_Capital_Gain" \in artifact =>
              (Row["Has_Capital_Gain"] = 1 <=> widgets.capital_gain > 0)
        /\ "Has_Capital_Loss" \in artifact =>
              (Row["Has_Capital_Loss"] = 1 <=> widgets.capital_loss > 0)

\* C6: when predict_proba or the attribution step raises, the exception is
\* caught inside the request handler and the page shows exactly one error
\* message that carries the raised text.
C6_CaughtOnce ==
    raised \in {"predict_proba", "shap_values"} =>
        /\ ~escaped
        /\ Len(display) = 1
        /\ display[1].kind = "error"
        /\ display[1].text = raised

\* build_input with the activation of one attribute left out
EncodeWithout(w, names, skip) ==
    LET X0 == Numerics(ZeroFrame(names), w)
        X1 == IF skip = "Occupation" THEN X0
              ELSE act(X0, "Occupation", OCCUPATION_MAP[w.occupation_label])
        X2 == IF skip = "Marital Status" THEN X1
              ELSE act(X1, "Marital Status", MARITAL_MAP[w.marital_label])
        X3 == IF skip = "Relationship" THEN X2
              ELSE act(X2, "Relationship", RELATIONSHIP_MAP[w.relationship_label])
    IN  IF skip = "Gender" THEN X3 ELSE GenderStep(X3, w)

\* C7: when the selected value of an attribute has no matching column in the
\* schema, encoding completes, no column of that attribute is 1, and every
\* other column is as it would be without the attribute.
C7_UnmatchedIsNoOp ==
    Built =>
        \A a \in Attributes :
            OneHot(a, Selected(widgets, a)) \notin artifact =>
                LET other == EncodeWithout(widgets, artifact, a)[0]
                IN  /\ Ones(Row, a) = {}
                    /\ \A c \in DOMAIN Row :
                          ~HasPrefix(c, a) => c \in DOMAIN other /\ Row[c] = other[c]

\* C8: at most one column of each one-hot attribute is 1 in the encoded row,
\* and every other column of that attribute is 0.
C8_AtMostOneHot ==
    Built =>
        \A a \in Attributes :
            /\ Cardinality(Ones(Row, a)) <= 1
            /\ \A c \in DOMAIN Row : HasPrefix(c, a) => Row[c] \in {0, 1}

C8_Witness ==
    /\ Built
    /\ artifact = WideSchema
    /\ widgets.occupation_label = "Lainnya"
    /\ Row["Occupation_Unknown"] = 1
    /\ Row["Occupation_Exec-managerial"] = 0
    /\ Row["Gender_Male"] = 1
    /\ Row["Gender_Female"] = 0

\* C9: the body of load_resources runs at most once; once an object is stored
\* every run binds that object, and no step replaces it or alters the artifact.
C9_LoadedOnce ==
    [][ /\ loads' <= 1
        /\ Cached(cache) => (cache' = cache /\ loads' = loads)
        /\ model' # 0 => model' = cache'
        /\ artifact' = artifact ]_vars

C9_Witness ==
    /\ changes >= 1
    /\ button
    /\ pc = "result"
    /\ loads = 1
    /\ model = 1
    /\ cache = 1

FullSeq == <<"encode", "predict_proba", "render", "attribution">>

RunSeq == IF button THEN FullSeq ELSE <<"encode">>

IsPrefix(s, t) == Len(s) <= Len(t) /\ s = SubSeq(t, 1, Len(s))

\* C10: a run makes its calls in the order encode, predict_proba, render,
\* attribution, each once, and only a button run goes past encode; the
\* classifier and the explainer receive the frame encoded from the current
\* widget values; a run starts with nothing bound or shown.
C10_OneSequencePerPress ==
    /\ IsPrefix(calls, RunSeq)
    /\ (pc = "idle" /\ raised = "") => calls = RunSeq
    /\ ~button => /\ display = <<>>
                  /\ proba = -1
                  /\ proba_arg = <<>>
                  /\ shap_arg = <<>>
    /\ Built => X_input = build_input(widgets, artifact)
    /\ proba_arg # <<>> => proba_arg = X_input
    /\ shap_arg # <<>> => shap_arg = X_input
    /\ pc = "load" => /\ ~Built
                      /\ calls = <<>>
                      /\ display = <<>>
                      /\ proba = -1
    /\ Rendered => display[2].value = Fmt(IF pred = 1 THEN proba ELSE ProbScale - proba)

C10_Witness ==
    /\ pc = "idle"
    /\ button
    /\ raised = ""
    /\ widgets # Defaults
    /\ calls = FullSeq
    /\ shap_arg = X_input
    /\ proba_arg = build_input(widgets, artifact)
    /\ Len(display) = 5

====
